---- MODULE Spec2Model ----
(***************************************************************************)
(* Model of the DataDAO deployment toolkit: the deployment.json state file *)
(* and the scripts that read and write it (setup, deploy:contracts,        *)
(* register:datadao, deploy:proof, deploy:refiner, deploy:ui, status and   *)
(* the deploy orchestrator), and of the web application's five-step        *)
(* contribution flow.                                                      *)
(*                                                                         *)
(* Scripts run one at a time.  A parent script (deploy, status) launches   *)
(* its step scripts with execSync and is blocked until the child exits;    *)
(* it keeps the copy of deployment.json it loaded before.                  *)
(***************************************************************************)
EXTENDS Integers, Sequences, FiniteSets, TLC

(***************************************************************************)
(* Bounds of the model.                                                    *)
(***************************************************************************)
MaxDlpId == 1        \* dlpIds the registry can assign: 1..MaxDlpId
MaxUrl == 1          \* distinct proof URLs a user can enter: 1..MaxUrl
MaxRefinerId == 1    \* refiner ids: 0..MaxRefinerId

NoId == -1           \* refinerId absent from deployment.json / ui/.env

(***************************************************************************)
(* deployment.json                                                         *)
(***************************************************************************)
Steps == {"contractsDeployed", "dataDAORegistered", "proofConfigured",
          "refinerConfigured", "uiConfigured"}

Flags == Steps \cup {"proofGitSetup", "proofPublished", "refinerGitSetup",
                     "refinerPublished", "proofInstructionUpdated"}

Scripts == {"deploy:contracts", "register:datadao", "deploy:proof",
            "deploy:refiner", "deploy:ui"}

\* scriptMap of retryFailedSteps: the script of each step
scriptMap(step) ==
  CASE step = "contractsDeployed" -> "deploy:contracts"
    [] step = "dataDAORegistered" -> "register:datadao"
    [] step = "proofConfigured"   -> "deploy:proof"
    [] step = "refinerConfigured" -> "deploy:refiner"
    [] step = "uiConfigured"      -> "deploy:ui"

\* the step a script completes (inverse of scriptMap)
stepOf(script) == CHOOSE s \in Steps : scriptMap(s) = script

\* The file written by setup (generateEnvFiles): dlpName, tokenName,
\* tokenSymbol, address and publicKey only.  Every other field is absent:
\* no contract address, no dlpId, no repository URL, no credential, no
\* state object and no errors map.  st is the set of flags that are true.
generateEnvFiles ==
  [ hasToken       |-> FALSE,   \* tokenAddress and contracts.tokenAddress
    hasProxy       |-> FALSE,   \* proxyAddress and contracts.proxyAddress
    dlpId          |-> 0,       \* 0: absent
    proofRepo      |-> FALSE,
    refinerRepo    |-> FALSE,
    githubUsername |-> FALSE,
    proofUrl       |-> 0,       \* 0: absent
    refinerId      |-> NoId,
    pinata         |-> FALSE,   \* pinataApiKey and pinataApiSecret
    google         |-> FALSE,   \* googleClientId and googleClientSecret
    hasState       |-> FALSE,   \* the state object exists
    st             |-> {},
    errors         |-> {} ]     \* keys of the errors map

\* truthiness of deployment.refinerId (0 is falsy)
truthyId(id) == id # NoId /\ id # 0

\* deployment.state.<flag> = true
flag(f, name) == name \in f.st

\* deployment.state = deployment.state || {}; deployment.state.<names> = true
setFlags(f, names) == [f EXCEPT !.hasState = TRUE, !.st = @ \cup names]

\* deployment.state.<names> = false
clearFlags(f, names) == [f EXCEPT !.hasState = TRUE, !.st = @ \ names]

(***************************************************************************)
(* DeploymentStateManager                                                  *)
(***************************************************************************)
\* The state object loadState creates when deployment.json has none.
loadStateInitRegistered(f) ==
  {s \in {"contractsDeployed", "dataDAORegistered"} :
     \/ s = "contractsDeployed" /\ f.hasToken /\ f.hasProxy
     \/ s = "dataDAORegistered"}

loadStateInit(f) ==
  {s \in {"contractsDeployed", "dataDAORegistered"} :
     \/ s = "contractsDeployed" /\ f.hasToken /\ f.hasProxy
     \/ s = "dataDAORegistered" /\ f.dlpId # 0}

\* loadState: the deployment object held in memory.  needsSave tells that
\* the state object was created, in which case loadState saves the file.
loadState(f) ==
  IF f.hasState THEN f
  ELSE [f EXCEPT !.hasState = TRUE, !.st = loadStateInit(f)]

loadStateSaves(f) == ~f.hasState

\* recordError(step, error): in-memory state afterwards (it is then saved)
recordError(mem, step) == [mem EXCEPT !.errors = @ \cup {step}]

\* clearError(step): in-memory state afterwards; saved only if it changed
clearError(mem, step) == [mem EXCEPT !.errors = @ \ {step}]

clearErrorSaves(mem, step) == step \in mem.errors

\* updateState(updates) with every update setting a flag to true
updateState(mem, names) == [mem EXCEPT !.st = @ \cup names]

\* isCompleted(step)
isCompleted(mem, step) ==
  \/ flag(mem, step)
  \/ step = "contractsDeployed" /\ mem.hasToken /\ mem.hasProxy
  \/ step = "dataDAORegistered" /\ mem.dlpId # 0
  \/ step = "proofGitSetup" /\ mem.proofRepo
  \/ step = "refinerGitSetup" /\ mem.refinerRepo
  \/ step = "proofConfigured" /\ mem.proofUrl # 0
  \/ step = "refinerConfigured" /\ truthyId(mem.refinerId)

\* syncStateFromData: the updates it computes
syncStateFromDataAll(mem) ==
  {s \in {"contractsDeployed", "dataDAORegistered", "proofGitSetup",
          "refinerGitSetup", "proofConfigured", "refinerConfigured"} :
     isCompleted(mem, s)}

syncStateFromDataNone(mem) == {}

syncStateFromData(mem) ==
  {s \in {"contractsDeployed", "dataDAORegistered", "proofGitSetup",
          "refinerGitSetup", "proofConfigured", "refinerConfigured"} :
     ~flag(mem, s) /\ isCompleted(mem, s)}

\* validateRequiredFields(['proofUrl', 'refinerId']): the missing fields
validateRequiredFieldsNone(mem) == {}

validateRequiredFields(mem) ==
  {x \in {"proofUrl", "refinerId"} :
     \/ x = "proofUrl" /\ mem.proofUrl = 0
     \/ x = "refinerId" /\ ~truthyId(mem.refinerId)}

(***************************************************************************)
(* ui/.env: the two variables the claims are about, and whether deploy:ui  *)
(* has written the full configuration.  setup creates the file.           *)
(***************************************************************************)
setupUiEnv == [REFINER_ID |-> NoId, PROOF_URL |-> 0, configured |-> FALSE]

(***************************************************************************)
(* deploy:contracts.  Inputs: whether the balance check lets the run go on *)
(* (enough balance, or the balance could not be read), whether hardhat     *)
(* succeeded, and whether the token / proxy address patterns matched its   *)
(* output.  Result: the file afterwards and the exit code.                 *)
(***************************************************************************)
deployContractsUnchecked(f, balanceOk, hardhatOk, tokenMatch, proxyMatch) ==
  IF ~balanceOk THEN [file |-> f, exit |-> 1]
  ELSE IF ~hardhatOk THEN [file |-> f, exit |-> 1]
  ELSE [file |-> setFlags([f EXCEPT !.hasToken = tokenMatch,
                                    !.hasProxy = proxyMatch],
                          {"contractsDeployed"}),
        exit |-> 0]

deployContracts(f, balanceOk, hardhatOk, tokenMatch, proxyMatch) ==
  IF ~balanceOk THEN [file |-> f, exit |-> 1]           \* process.exit(1)
  ELSE IF ~hardhatOk THEN [file |-> f, exit |-> 1]      \* catch, exit(1)
  ELSE IF ~tokenMatch THEN [file |-> f, exit |-> 1]
  ELSE IF ~proxyMatch THEN [file |-> f, exit |-> 1]
  ELSE [file |-> setFlags([f EXCEPT !.hasToken = tokenMatch,
                                    !.hasProxy = proxyMatch],
                          {"contractsDeployed"}),
        exit |-> 0]

(***************************************************************************)
(* deploy:proof.  in: repoValid, choice, pushOk, url, keyOk, txOk.         *)
(* Result: file, exit, env (ui/.env afterwards), tx (outcome of the        *)
(* updateProofInstruction transaction: "none", "success", "failed").       *)
(***************************************************************************)
\* The inputs that lead to different runs: one per way of failing or
\* skipping, and every URL with every outcome of the transaction.
ProofDefaults ==
  [repoValid |-> TRUE, choice |-> "manual", pushOk |-> TRUE, url |-> 1,
   keyOk |-> TRUE, txOk |-> TRUE]

ProofInputs ==
  {[ProofDefaults EXCEPT !.repoValid = FALSE],
   [ProofDefaults EXCEPT !.choice = "skip"],
   [ProofDefaults EXCEPT !.choice = "auto", !.pushOk = FALSE]}
  \cup {[ProofDefaults EXCEPT !.choice = c, !.url = u, !.keyOk = k[1],
                              !.txOk = k[2]] :
          c \in {"auto", "manual"}, u \in 1..MaxUrl,
          k \in {<<TRUE, TRUE>>, <<FALSE, TRUE>>, <<TRUE, FALSE>>}}

\* updateDLPProofInstruction: the receipt it gets, if any.  The flag
\* proofInstructionUpdated is set on the in-memory object only, after the
\* file has been written.
updateDLPProofInstruction(deployment, keyOk, txOk) ==
  IF keyOk /\ deployment.hasProxy /\ txOk THEN "success" ELSE "failed"

deployProof(f, env, in) ==
  LET sm == loadState(f)          \* new DeploymentStateManager()
      deployment == sm            \* validateDeployment re-reads the file
  IN
  IF deployment.dlpId = 0 \/ ~deployment.proofRepo \/ ~in.repoValid
  THEN [file |-> sm, exit |-> 1, env |-> env, tx |-> "none"]
  ELSE IF in.choice = "auto" /\ ~in.pushOk
  THEN [file |-> recordError(sm, "proofConfigured"), exit |-> 1,
        env |-> env, tx |-> "none"]
  ELSE IF in.choice = "skip"
  THEN [file |-> clearFlags(setFlags(deployment, {"proofConfigured"}),
                            {"proofPublished"}),
        exit |-> 0, env |-> env, tx |-> "none"]
  ELSE LET d2 == setFlags([deployment EXCEPT !.proofUrl = in.url],
                          {"proofConfigured", "proofPublished"})
       IN [file |-> d2, exit |-> 0,
           env |-> [env EXCEPT !.PROOF_URL = in.url],
           tx |-> updateDLPProofInstruction(d2, in.keyOk, in.txOk)]

(***************************************************************************)
(* deploy:refiner.  in: dirOk (no file-system or chdir exception), choice, *)
(* pushOk, buildComplete, reg (how the on-chain registration went:         *)
(* "auto" the transaction log gave the id, "manual" the user typed it,     *)
(* "error" it threw), id, skipRegistration.                                *)
(***************************************************************************)
RefinerDefaults ==
  [dirOk |-> TRUE, choice |-> "auto", pushOk |-> TRUE, buildComplete |-> TRUE,
   reg |-> "auto", id |-> 0, skipRegistration |-> FALSE]

RefinerInputs ==
  {[RefinerDefaults EXCEPT !.dirOk = FALSE],
   [RefinerDefaults EXCEPT !.choice = "skip"],
   [RefinerDefaults EXCEPT !.pushOk = FALSE],
   [RefinerDefaults EXCEPT !.buildComplete = FALSE],
   [RefinerDefaults EXCEPT !.reg = "error"],
   [RefinerDefaults EXCEPT !.reg = "error", !.skipRegistration = TRUE]}
  \cup {[RefinerDefaults EXCEPT !.choice = c, !.reg = r, !.id = i] :
          c \in {"auto", "manual"}, r \in {"auto", "manual"},
          i \in 0..MaxRefinerId}

deployRefiner(f, env, in) ==
  LET sm == loadState(f)
      deployment == sm
      failed == [file |-> recordError(sm, "refinerConfigured"), exit |-> 1,
                 env |-> env]
      returned == [file |-> sm, exit |-> 0, env |-> env]
      configured(d) == setFlags(d, {"refinerConfigured", "refinerPublished"})
      \* registerRefinerOnChain is called in the auto branch only, and an id
      \* of 0 read from the log is falsy: the user is asked for the id
      regKind == IF in.reg = "auto" /\ (in.choice = "manual" \/ in.id = 0)
                 THEN "manual" ELSE in.reg
  IN
  IF deployment.dlpId = 0 \/ ~deployment.refinerRepo THEN failed
  ELSE IF ~in.dirOk THEN failed
  ELSE IF in.choice = "skip"
  THEN [file |-> clearFlags(setFlags(deployment, {"refinerConfigured"}),
                            {"refinerPublished"}),
        exit |-> 0, env |-> env]
  ELSE IF in.choice = "auto" /\ (~in.pushOk \/ ~in.buildComplete)
  THEN returned
  ELSE IF regKind = "error"
  THEN IF in.skipRegistration
       THEN [file |-> configured(deployment), exit |-> 0, env |-> env]
       ELSE returned
  ELSE [file |-> configured([deployment EXCEPT !.refinerId = in.id]),
        exit |-> 0,
        env |-> [env EXCEPT !.REFINER_ID = in.id]]

(***************************************************************************)
(* deploy:ui.  Result: file, exit, env, wrote (ui/.env was written).       *)
(***************************************************************************)
deployUI(f, env) ==
  LET sm == loadState(f)
      missing == validateRequiredFields(sm)
      \* catch: new DeploymentStateManager(); recordError('uiConfigured')
      failed == [file |-> recordError(loadState(sm), "uiConfigured"),
                 exit |-> 1, env |-> env, wrote |-> FALSE]
  IN
  IF "refinerId" \in missing
  THEN [file |-> sm, exit |-> 1, env |-> env, wrote |-> FALSE]
  ELSE IF missing # {} THEN failed
  ELSE IF isCompleted(sm, "uiConfigured")
  THEN [file |-> sm, exit |-> 0, env |-> env, wrote |-> FALSE]
  ELSE IF ~sm.pinata THEN failed
  ELSE IF ~sm.google THEN failed
  ELSE [file |-> updateState(sm, {"uiConfigured"}),   \* markCompleted
        exit |-> 0,
        env |-> [REFINER_ID |-> sm.refinerId, PROOF_URL |-> sm.proofUrl,
                 configured |-> TRUE],
        wrote |-> TRUE]

(***************************************************************************)
(* register:datadao helpers                                                *)
(***************************************************************************)
\* getDlpId: the registry's answer, or 0 when the read throws
getDlpId(rpc, onChain) == IF rpc = "ok" THEN onChain ELSE 0

\* checkDlpNameAvailability(...).available; outcome is "free", "taken" or
\* "error" (the read threw: assume available)
checkDlpNameAvailability(outcome) == outcome # "taken"

\* what the script marks in its deployment object once a dlpId is known
markRegisteredNoFlag(deployment, dlpId) == [deployment EXCEPT !.dlpId = dlpId]

markRegistered(deployment, dlpId) ==
  setFlags([deployment EXCEPT !.dlpId = dlpId], {"dataDAORegistered"})

\* fs.writeFileSync inside try/catch: a failed write is logged and ignored
tryWriteNothing(old, new, writeOk) == old

tryWrite(old, new, writeOk) == IF writeOk THEN new ELSE old

\* The DLP registry executing registerDlp: tx is what the network does
\* with the transaction ("threw": writeContract threw, "reverted",
\* "success"); a proxy address that has a dlpId cannot be registered again.
registerDlp(onChain, tx, newId) ==
  IF tx = "success" /\ onChain = 0
  THEN [receipt |-> "success", onChain |-> newId]
  ELSE [receipt |-> IF tx = "threw" THEN "none" ELSE "reverted",
        onChain |-> onChain]

AutoDefaults ==
  [keyOk |-> TRUE, hasBalance |-> TRUE, confirm |-> TRUE, tx |-> "success",
   newId |-> 1, rpc |-> "ok", writeOk |-> TRUE]

AutoInputs ==
  {[AutoDefaults EXCEPT !.keyOk = FALSE],
   [AutoDefaults EXCEPT !.hasBalance = FALSE],
   [AutoDefaults EXCEPT !.confirm = FALSE],
   [AutoDefaults EXCEPT !.tx = "threw"],
   [AutoDefaults EXCEPT !.tx = "reverted"]}
  \cup {[AutoDefaults EXCEPT !.newId = i, !.rpc = r[1], !.writeOk = r[2]] :
          i \in 1..MaxDlpId,
          r \in {<<"ok", TRUE>>, <<"ok", FALSE>>, <<"error", TRUE>>}}

\* performAutomatedRegistration(deployment, quickMode).  Result: outcome
\* ("registered" when it returns true, otherwise the error it throws), sent
\* (the transaction was submitted), receipt, onChain (registry afterwards),
\* wrote and file (deployment.json afterwards).
performAutomatedRegistration(deployment, quickMode, f, onChain, in) ==
  LET thrown(o) == [outcome |-> o, sent |-> FALSE, receipt |-> "none",
                    onChain |-> onChain, wrote |-> FALSE, file |-> f]
      chain == registerDlp(onChain, in.tx, in.newId)
      after(o) == [outcome |-> o, sent |-> TRUE, receipt |-> chain.receipt,
                   onChain |-> chain.onChain, wrote |-> FALSE, file |-> f]
      dlpId == getDlpId(in.rpc, chain.onChain)
  IN
  IF ~in.keyOk THEN thrown("noKey")
  ELSE IF ~in.hasBalance THEN thrown("noBalance")
  ELSE IF ~deployment.hasProxy THEN thrown("noProxy")
  ELSE IF ~quickMode /\ ~in.confirm THEN thrown("declined")
  ELSE IF chain.receipt = "none" THEN after("txThrew")
  ELSE IF chain.receipt # "success" THEN after("reverted")
  ELSE IF ~(dlpId > 0) THEN after("noDlpId")
  ELSE [after("registered") EXCEPT
          !.wrote = in.writeOk,
          !.file = tryWrite(f, markRegistered(deployment, dlpId), in.writeOk)]

(***************************************************************************)
(* State                                                                   *)
(***************************************************************************)
VARIABLES
  file,            \* deployment.json
  uiEnv,           \* ui/.env
  registryDlpId,   \* DLP registry: dlpIds(proxy address), 0 = not registered
  chScript,        \* the step script running (or "none")
  chPc,            \* its position
  chPre,           \* deployment.json as the script read it at its start
  chExit,          \* its exit code once chPc = "exited"
  chObs,           \* what it observed and did during the run
  parKind,         \* the parent script running: "none", "deploy", "status"
  parPc,           \* its position
  parMem,          \* its in-memory copy of deployment.json
  parQueue,        \* retryFailedSteps: the error keys still to retry (the
                   \* loop takes them in the order of the errors map, which
                   \* can be any order)
  launched         \* deployAll: the step scripts launched in this run, each
                   \* with its flag in deployment.json at that moment

\* The web application's contribution flow (useContributionFlow)
VARIABLES
  flPc,            \* position of handleContributeData ("idle": not running)
  flIn,            \* its arguments: userInfo given, isConnected
  currentStep,
  completedSteps,
  isSuccess,
  error,           \* an error message is set
  rewardTxHash,    \* contributionData.rewardTxHash is defined
  contributionData, \* contributionData is not null
  issued,          \* steps whose external call was issued in this run
  returned,        \* steps whose external call returned successfully
  runs             \* contribution runs started so far

fsVars == <<file, uiEnv, registryDlpId>>
chVars == <<chScript, chPc, chPre, chExit, chObs>>
parVars == <<parKind, parPc, parMem, parQueue, launched>>
flowVars == <<flPc, flIn, currentStep, completedSteps, isSuccess, error,
              rewardTxHash, contributionData, issued, returned, runs>>
toolVars == <<fsVars, chVars, parVars>>

\* Functions checked on their own, each with the state of its run
VARIABLES
  poll,            \* pollEncryptionKey: the run of its loop
  sv,              \* a DeploymentStateManager with deployment.json and
                   \* deployment.json.backup
  sy,              \* a state manager on which syncStateFromData is called
  up               \* uploadUserData: a call of it (web application)

auxVars == <<poll, sv, sy, up>>
vars == <<toolVars, flowVars, auxVars>>

\* what a run has observed and done so far
noObs ==
  [ registryRead |-> "none",   \* first getDlpId: "zero", "positive", "error"
    nameCheck    |-> "none",   \* "free", "taken", "error"
    txCount      |-> 0,        \* registerDlp transactions submitted
    receipt      |-> "none",   \* "success", "reverted"
    outcome      |-> "none",   \* how performAutomatedRegistration ended
    wroteFile    |-> FALSE,    \* register:datadao wrote deployment.json
    extracted    |-> "none",   \* deploy:contracts: "both", "missing"
    wroteEnv     |-> FALSE,    \* deploy:ui wrote ui/.env
    proofTx      |-> "none" ]  \* updateProofInstruction receipt

\* position of a parent script: where it is and at which step
at(where, step) == [at |-> where, step |-> step]
idle == at("idle", 0)

\* useState initial values; no run has started
InitFlow ==
  /\ flPc = "idle" /\ flIn = [userInfo |-> FALSE, isConnected |-> FALSE]
  /\ currentStep = 0 /\ completedSteps = <<>>
  /\ isSuccess = FALSE /\ error = FALSE /\ rewardTxHash = FALSE
  /\ contributionData = FALSE
  /\ issued = {} /\ returned = {} /\ runs = 0

InitTools ==
  /\ file = generateEnvFiles
  /\ uiEnv = setupUiEnv
  /\ registryDlpId = 0
  /\ chScript = "none" /\ chPc = "idle"
  /\ chPre = generateEnvFiles
  /\ chExit = 0 /\ chObs = noObs
  /\ parKind = "none" /\ parPc = idle /\ parMem = generateEnvFiles
  /\ parQueue = {} /\ launched = <<>>

\* pollEncryptionKey has not been called
pollIdle ==
  [ pc |-> "idle", maxAttempts |-> 0, i |-> 0,
    reads |-> <<>>,      \* what each read of dlpPubKeys gave, in order
    sleeps |-> 0,        \* 30 second waits
    result |-> "none" ]  \* "key": the key read, "null"

\* After setup: deployment.json exists, no backup has been made and no
\* state manager has been constructed (mem is unused until then).
svIdle ==
  [ made |-> FALSE,                 \* a state manager has been constructed
    mem |-> generateEnvFiles,       \* this.state
    file |-> generateEnvFiles,      \* deployment.json
    backup |-> [present |-> FALSE, content |-> generateEnvFiles],
    saved |-> FALSE,                \* saveState has been called
    before |-> generateEnvFiles ]   \* deployment.json when it was last called

\* no state manager to sync yet
syIdle ==
  [ pc |-> "idle",
    before |-> generateEnvFiles,   \* this.state before the first call
    mem |-> generateEnvFiles,      \* this.state
    updates |-> {},                \* what the first call returned ({}: null)
    again |-> {},                  \* what the second call returned
    saves |-> 0,                   \* saveState calls made by the calls
    nextSteps |-> <<>>,            \* getNextSteps(deployment)
    incomplete |-> "null" ]        \* getNextIncompleteStep()

\* uploadUserData has not been called; a Blob is its type, its content and
\* the password it is encrypted with (0: none)
noBlob ==
  [type |-> "none", content |-> [userId |-> 0, storage |-> FALSE],
   password |-> 0]

upIdle ==
  [ pc |-> "idle",
    userId |-> 0, signature |-> 0,
    fileBlob |-> noBlob,         \* the data package as JSON
    encryptedBlob |-> noBlob,    \* what clientSideEncrypt returned
    requests |-> <<>>,           \* requests sent to Google Drive, in order
    uploaded |-> noBlob,         \* the file part of the upload request
    result |-> "none" ]          \* "returned" or "threw"

InitAux ==
  /\ poll = pollIdle
  /\ sv = svIdle
  /\ sy = syIdle
  /\ up = upIdle

Init == InitTools /\ InitFlow /\ InitAux

(***************************************************************************)
(* Launching and reaping a step script                                     *)
(***************************************************************************)
\* npm run <script>: the child starts and reads deployment.json (f)
Launch(script, f) ==
  /\ chScript' = script /\ chPc' = "start"
  /\ chPre' = f
  /\ chExit' = 0 /\ chObs' = noObs

\* the child is gone
Reaped ==
  /\ chScript' = "none" /\ chPc' = "idle"
  /\ chPre' = generateEnvFiles
  /\ chExit' = 0 /\ chObs' = noObs

\* the child exits with a code
Exit(code) ==
  /\ chPc' = "exited" /\ chExit' = code
  /\ UNCHANGED <<chScript, chPre>>

\* The user runs a step script from the shell.
UserRun ==
  /\ parKind = "none" /\ chScript = "none"
  /\ \E script \in Scripts : Launch(script, file)
  /\ UNCHANGED <<fsVars, parVars>>
  /\ UNCHANGED <<flowVars, auxVars>>

\* The shell gets the prompt back.
UserReap ==
  /\ parKind = "none" /\ chPc = "exited"
  /\ Reaped
  /\ UNCHANGED <<fsVars, parVars>>
  /\ UNCHANGED <<flowVars, auxVars>>

(***************************************************************************)
(* The single-step scripts                                                 *)
(***************************************************************************)
ContractsRun ==
  /\ chScript = "deploy:contracts" /\ chPc = "start"
  /\ \E balanceOk, hardhatOk, tokenMatch, proxyMatch \in BOOLEAN :
       LET r == deployContracts(file, balanceOk, hardhatOk, tokenMatch,
                                proxyMatch)
       IN /\ file' = r.file
          /\ Exit(r.exit)
          /\ chObs' = [chObs EXCEPT !.extracted =
               IF ~balanceOk \/ ~hardhatOk THEN "none"
               ELSE IF tokenMatch /\ proxyMatch THEN "both" ELSE "missing"]
  /\ UNCHANGED <<uiEnv, registryDlpId, parVars>>
  /\ UNCHANGED <<flowVars, auxVars>>

ProofRun ==
  /\ chScript = "deploy:proof" /\ chPc = "start"
  /\ \E in \in ProofInputs :
       LET r == deployProof(file, uiEnv, in)
       IN /\ file' = r.file /\ uiEnv' = r.env
          /\ Exit(r.exit)
          /\ chObs' = [chObs EXCEPT !.proofTx = r.tx]
  /\ UNCHANGED <<registryDlpId, parVars>>
  /\ UNCHANGED <<flowVars, auxVars>>

RefinerRun ==
  /\ chScript = "deploy:refiner" /\ chPc = "start"
  /\ \E in \in RefinerInputs :
       LET r == deployRefiner(file, uiEnv, in)
       IN /\ file' = r.file /\ uiEnv' = r.env
          /\ Exit(r.exit)
  /\ UNCHANGED <<registryDlpId, chObs, parVars>>
  /\ UNCHANGED <<flowVars, auxVars>>

UIRun ==
  /\ chScript = "deploy:ui" /\ chPc = "start"
  /\ LET r == deployUI(file, uiEnv)
     IN /\ file' = r.file /\ uiEnv' = r.env
        /\ Exit(r.exit)
        /\ chObs' = [chObs EXCEPT !.wroteEnv = r.wrote]
  /\ UNCHANGED <<registryDlpId, parVars>>
  /\ UNCHANGED <<flowVars, auxVars>>

(***************************************************************************)
(* register:datadao                                                        *)
(***************************************************************************)
\* registerDataDAO up to the already-registered check.
RegStart ==
  /\ chScript = "register:datadao" /\ chPc = "start"
  /\ \E rpc \in {"ok", "error"}, writeOk \in BOOLEAN :
       LET deployment == chPre
           existingDlpId == getDlpId(rpc, registryDlpId)
           read == IF rpc = "error" THEN "error"
                   ELSE IF existingDlpId > 0 THEN "positive" ELSE "zero"
       IN
       IF ~deployment.hasProxy
       THEN /\ Exit(1) /\ UNCHANGED <<file, chObs>>
       ELSE IF existingDlpId > 0
       THEN /\ file' = tryWrite(file, markRegistered(deployment,
                                                     existingDlpId), writeOk)
            /\ chObs' = [chObs EXCEPT !.registryRead = read,
                                      !.wroteFile = writeOk]
            /\ Exit(0)
       ELSE /\ chPc' = "nameCheck"
            /\ chObs' = [chObs EXCEPT !.registryRead = read]
            /\ UNCHANGED <<file, chScript, chPre, chExit>>
  /\ UNCHANGED <<uiEnv, registryDlpId, parVars>>
  /\ UNCHANGED <<flowVars, auxVars>>

\* The name check: a name reported taken ends the run.
RegNameCheck ==
  /\ chScript = "register:datadao" /\ chPc = "nameCheck"
  /\ \E outcome \in {"free", "taken", "error"} :
       /\ chObs' = [chObs EXCEPT !.nameCheck = outcome]
       /\ IF ~checkDlpNameAvailability(outcome)
          THEN Exit(1)
          ELSE /\ chPc' = "method"
               /\ UNCHANGED <<chScript, chPre, chExit>>
  /\ UNCHANGED <<fsVars, parVars>>
  /\ UNCHANGED <<flowVars, auxVars>>

\* The choice of the registration method (automated without a prompt in
\* quick mode); "skip" ends the run unless the user registers after all.
RegMethod ==
  /\ chScript = "register:datadao" /\ chPc = "method"
  /\ \E quickMode \in BOOLEAN, method \in {"auto", "manual", "skip"} :
       LET registrationMethod == IF quickMode THEN "auto" ELSE method IN
       IF registrationMethod = "skip"
       THEN Exit(1)
       ELSE /\ chPc' = IF registrationMethod = "manual" THEN "manual"
                       ELSE IF quickMode THEN "autoQuick" ELSE "auto"
            /\ UNCHANGED <<chScript, chPre, chExit>>
  /\ UNCHANGED <<fsVars, chObs, parVars>>
  /\ UNCHANGED <<flowVars, auxVars>>

\* performAutomatedRegistration and the end of registerDataDAO.
RegAuto ==
  /\ chScript = "register:datadao" /\ chPc \in {"auto", "autoQuick"}
  /\ \E in \in AutoInputs :
       LET r == performAutomatedRegistration(chPre, chPc = "autoQuick",
                                             file, registryDlpId, in)
       IN /\ file' = r.file
          /\ registryDlpId' = r.onChain
          /\ chObs' = [chObs EXCEPT
               !.txCount = IF r.sent THEN @ + 1 ELSE @,
               !.receipt = r.receipt,
               !.outcome = r.outcome,
               !.wroteFile = r.wrote]
          /\ Exit(IF r.outcome = "registered" THEN 0 ELSE 1)
  /\ UNCHANGED <<uiEnv, parVars>>
  /\ UNCHANGED <<flowVars, auxVars>>

\* performManualRegistration: the user may register on the explorer; the
\* script then detects the dlpId, takes one typed in, switches to automated
\* registration or gives up.  It never writes deployment.json.
RegManual ==
  /\ chScript = "register:datadao" /\ chPc = "manual"
  /\ \E newId \in 0..MaxDlpId, rpc \in {"ok", "error"},
        action \in {"detect", "manual", "auto", "skip"} :
       \* newId = 0: the user has not registered on the explorer
       LET onChain == IF newId > 0
                      THEN registerDlp(registryDlpId, "success", newId).onChain
                      ELSE registryDlpId
           dlpId == getDlpId(rpc, onChain)
           \* "detect": the user says it is done and the polling decides;
           \* without a dlpId the menu offers "manual", "auto" and "skip"
           next == IF action # "detect" THEN action
                   ELSE IF dlpId > 0 THEN "detected" ELSE "skip"
       IN /\ registryDlpId' = onChain
          /\ IF next = "auto"
             THEN /\ chPc' = "auto" /\ UNCHANGED <<chScript, chPre, chExit>>
             ELSE Exit(IF next = "skip" THEN 1 ELSE 0)
  /\ UNCHANGED <<file, uiEnv, chObs, parVars>>
  /\ UNCHANGED <<flowVars, auxVars>>

(***************************************************************************)
(* The deploy orchestrator (deployAll)                                     *)
(***************************************************************************)
\* the orchestrator's steps in order
deploySteps == <<"contractsDeployed", "dataDAORegistered", "proofConfigured",
                 "refinerConfigured", "uiConfigured">>

stepIndex(step) == CHOOSE k \in 1..Len(deploySteps) : deploySteps[k] = step

\* the guard of a step: !deployment.state?.<flag>
stepPendingAlways(deployment, step) == TRUE

stepPending(deployment, step) == ~flag(deployment, step)

\* the parent script ends
ParEnd ==
  /\ parKind' = "none" /\ parPc' = idle /\ parMem' = generateEnvFiles
  /\ parQueue' = {} /\ launched' = <<>>

\* on to the next step, or to the final status after step 5
DeployOn(k, deployment) ==
  /\ parPc' = IF k < Len(deploySteps) THEN at("check", k + 1)
              ELSE at("completed", 0)
  /\ parMem' = deployment
  /\ UNCHANGED <<parKind, parQueue, launched>>

DeployStart ==
  /\ parKind = "none" /\ chScript = "none"
  /\ parKind' = "deploy" /\ parPc' = at("check", 1)
  /\ parMem' = file                    \* JSON.parse(readFileSync(...))
  /\ UNCHANGED <<fsVars, chVars, parQueue, launched>>
  /\ UNCHANGED <<flowVars, auxVars>>

\* Step k: skip it when its flag is set in the loaded copy, else prompt and
\* launch its script.  The copy is reloaded after steps 1 and 2.
DeployCheck ==
  /\ parKind = "deploy" /\ parPc.at = "check"
  /\ LET k == parPc.step
         step == deploySteps[k]
     IN
     IF ~stepPending(parMem, step)
     THEN /\ DeployOn(k, IF k \in {1, 2} THEN file ELSE parMem)
          /\ UNCHANGED <<fsVars, chVars>>
     ELSE \E answer \in BOOLEAN :
            LET run == IF k = 4 THEN answer /\ flag(parMem, "refinerGitSetup")
                       ELSE answer
            IN
            IF run
            THEN /\ Launch(scriptMap(step), file)
                 /\ launched' = Append(launched,
                      [script |-> scriptMap(step), flagInFile |-> flag(file, step)])
                 /\ parPc' = at("wait", k)
                 /\ UNCHANGED <<fsVars, parKind, parMem, parQueue>>
            ELSE IF k \in {1, 2, 3}
            THEN /\ ParEnd /\ UNCHANGED <<fsVars, chVars>>      \* return
            ELSE /\ DeployOn(k, parMem)
                 /\ UNCHANGED <<fsVars, chVars>>
  /\ UNCHANGED <<flowVars, auxVars>>

\* execSync returns or throws: a failure of steps 1 to 3 ends the run with
\* exit code 1, a failure of steps 4 and 5 is reported and the run goes on.
DeployWait ==
  /\ parKind = "deploy" /\ parPc.at = "wait" /\ chPc = "exited"
  /\ LET k == parPc.step IN
     IF chExit # 0 /\ k \in {1, 2, 3}
     THEN /\ ParEnd
     ELSE /\ DeployOn(k, IF k \in {1, 2} THEN file ELSE parMem)
  /\ Reaped
  /\ UNCHANGED fsVars
  /\ UNCHANGED <<flowVars, auxVars>>

\* Final status: 'DataDAO deployment completed!' is printed and the run ends.
DeployCompleted ==
  /\ parKind = "deploy" /\ parPc.at = "completed"
  /\ ParEnd
  /\ UNCHANGED <<fsVars, chVars>>
  /\ UNCHANGED <<flowVars, auxVars>>

(***************************************************************************)
(* status (showStatus, retryFailedSteps, resumeGuidedSetup)                *)
(***************************************************************************)
\* fixConfiguration: the credentials it asks for are those that are missing
fixConfiguration(mem, shouldFix) ==
  IF shouldFix THEN [mem EXCEPT !.pinata = TRUE, !.google = TRUE] ELSE mem

\* updateCredentials
updateCredentials(mem, credentialType) ==
  CASE credentialType = "pinata" -> [mem EXCEPT !.pinata = TRUE]
    [] credentialType = "google" -> [mem EXCEPT !.google = TRUE]
    [] OTHER -> mem

\* hasIncompleteSteps of showStatus
hasIncompleteSteps(mem) == \E step \in Steps : ~isCompleted(mem, step)

\* the steps of resumeGuidedSetup; 3 is the GitHub repository setup
resumeSteps == <<"contractsDeployed", "dataDAORegistered", "github",
                 "proofConfigured", "refinerConfigured", "uiConfigured">>

\* showStatus up to its menu: the state manager is constructed (loadState
\* saves when it creates the state object) and the flags are synced from
\* the data (updateState saves).
StatusStart ==
  /\ parKind = "none" /\ chScript = "none"
  /\ LET loaded == loadState(file)
         updates == syncStateFromData(loaded)
         mem == updateState(loaded, updates)
     IN /\ parMem' = mem
        /\ file' = IF loadStateSaves(file) \/ updates # {} THEN mem ELSE file
        /\ parKind' = "status"
        /\ parPc' = IF mem.errors # {} THEN at("menu", 0)
                    ELSE IF hasIncompleteSteps(mem) THEN at("resume", 1)
                    ELSE at("done", 0)
  /\ UNCHANGED <<uiEnv, registryDlpId, chVars, parQueue, launched>>
  /\ UNCHANGED <<flowVars, auxVars>>

\* nothing left to do: the next steps are printed
StatusDone ==
  /\ parKind = "status" /\ parPc.at = "done"
  /\ ParEnd
  /\ UNCHANGED <<fsVars, chVars>>
  /\ UNCHANGED <<flowVars, auxVars>>

\* the menu shown when errors are recorded
StatusMenu ==
  /\ parKind = "status" /\ parPc.at = "menu"
  /\ \E choice \in {<<"fix", "yes">>, <<"recover", "retry">>,
                     <<"credentials", "pinata">>, <<"credentials", "google">>,
                     <<"continue", "">>} :
       \* declining the fix, leaving the recovery menu, viewing the
       \* configuration or the errors all end like "continue"
       LET action == choice[1]
           mem == CASE action = "fix" -> fixConfiguration(parMem, TRUE)
                    [] action = "credentials" ->
                         updateCredentials(parMem, choice[2])
                    [] OTHER -> parMem
       IN
       IF action = "recover"
       THEN /\ parQueue' = parMem.errors       \* Object.keys(errors)
            /\ parPc' = at("retry", 0)
            /\ UNCHANGED <<file, parKind, parMem, launched>>
       ELSE /\ file' = IF mem # parMem THEN mem ELSE file   \* updateDeployment
            /\ ParEnd
  /\ UNCHANGED <<uiEnv, registryDlpId, chVars>>
  /\ UNCHANGED <<flowVars, auxVars>>

\* retryFailedSteps, one round of the loop up to execSync: the error is
\* cleared (clearError saves the state manager's copy) and the script runs.
StatusRetry ==
  /\ parKind = "status" /\ parPc.at = "retry"
  /\ IF parQueue = {}
     THEN /\ ParEnd /\ UNCHANGED <<file, chVars>>
     ELSE \E step \in parQueue :
          /\ parMem' = clearError(parMem, step)
          /\ file' = IF clearErrorSaves(parMem, step) THEN parMem' ELSE file
          /\ Launch(scriptMap(step), file')
          /\ parPc' = at("retryWait", stepIndex(step))
          /\ parQueue' = parQueue \ {step}
          /\ UNCHANGED <<parKind, launched>>
  /\ UNCHANGED <<uiEnv, registryDlpId>>
  /\ UNCHANGED <<flowVars, auxVars>>

\* retryFailedSteps after execSync: a failure is recorded (recordError saves
\* the state manager's copy).
StatusRetryWait ==
  /\ parKind = "status" /\ parPc.at = "retryWait" /\ chPc = "exited"
  /\ LET step == deploySteps[parPc.step] IN
     IF chExit # 0
     THEN /\ parMem' = recordError(parMem, step) /\ file' = parMem'
     ELSE /\ UNCHANGED <<parMem, file>>
  /\ parPc' = at("retry", 0)
  /\ Reaped
  /\ UNCHANGED <<uiEnv, registryDlpId, parKind, parQueue, launched>>
  /\ UNCHANGED <<flowVars, auxVars>>

\* on to the next step of resumeGuidedSetup, or to its end
ResumeOn(k) ==
  IF k < Len(resumeSteps)
  THEN /\ parPc' = at("resume", k + 1)
       /\ UNCHANGED <<parKind, parQueue, launched>>
  ELSE /\ parPc' = at("done", 0)
       /\ UNCHANGED <<parKind, parQueue, launched>>

\* resumeGuidedSetup, a script step: it is skipped when its flag is set in
\* the deployment object loaded by showStatus.
StatusResume ==
  /\ parKind = "status" /\ parPc.at = "resume" /\ parPc.step # 3
  /\ LET k == parPc.step
         step == resumeSteps[k]
     IN
     IF flag(parMem, step)
     THEN /\ ResumeOn(k) /\ UNCHANGED <<chVars, parMem>>
     ELSE \E readyToContinue \in BOOLEAN :
            IF k = 1 /\ ~readyToContinue
            THEN /\ ParEnd /\ UNCHANGED chVars
            ELSE /\ Launch(scriptMap(step), file)
                 /\ parPc' = at("resumeWait", k)
                 /\ UNCHANGED <<parKind, parMem, parQueue, launched>>
  /\ UNCHANGED fsVars
  /\ UNCHANGED <<flowVars, auxVars>>

\* resumeGuidedSetup after execSync: a failure is recorded (recordError
\* saves the state manager's copy) and the setup stops.
StatusResumeWait ==
  /\ parKind = "status" /\ parPc.at = "resumeWait" /\ chPc = "exited"
  /\ LET k == parPc.step
         step == resumeSteps[k]
     IN
     IF chExit # 0
     THEN /\ file' = recordError(parMem, step)
          /\ ParEnd
     ELSE /\ ResumeOn(k) /\ UNCHANGED <<file, parMem>>
  /\ Reaped
  /\ UNCHANGED <<uiEnv, registryDlpId>>
  /\ UNCHANGED <<flowVars, auxVars>>

\* resumeGuidedSetup, the GitHub repository setup: the user name is asked
\* for and stored, the repositories are created with the GitHub CLI and
\* stored (updateDeployment saves the state manager's copy); without the
\* CLI the user sets them up by hand and the setup goes on or stops.
StatusGitHub ==
  /\ parKind = "status" /\ parPc.at = "resume" /\ parPc.step = 3
  /\ IF parMem.proofRepo /\ parMem.refinerRepo
     THEN /\ ResumeOn(3) /\ UNCHANGED <<file, parMem>>
     ELSE \E canUseAutomation \in BOOLEAN, skipGitHub \in BOOLEAN :
            LET named == [parMem EXCEPT !.githubUsername = TRUE]
                repos == [named EXCEPT !.proofRepo = TRUE,
                                       !.refinerRepo = TRUE]
                mem == IF canUseAutomation THEN repos ELSE named
            IN /\ file' = IF mem # parMem THEN mem ELSE file
               /\ IF canUseAutomation \/ skipGitHub
                  THEN /\ parMem' = mem /\ ResumeOn(3)
                  ELSE /\ ParEnd
  /\ UNCHANGED <<uiEnv, registryDlpId, chVars>>
  /\ UNCHANGED <<flowVars, auxVars>>

Next ==
  \/ UserRun \/ UserReap
  \/ ContractsRun \/ ProofRun \/ RefinerRun \/ UIRun
  \/ RegStart \/ RegNameCheck \/ RegMethod \/ RegAuto \/ RegManual
  \/ DeployStart \/ DeployCheck \/ DeployWait \/ DeployCompleted
  \/ StatusStart \/ StatusDone \/ StatusMenu \/ StatusRetry \/ StatusRetryWait
  \/ StatusResume \/ StatusResumeWait \/ StatusGitHub

Spec == Init /\ [][Next]_vars

(***************************************************************************)
(* The contribution flow (useContributionFlow)                             *)
(***************************************************************************)
MaxRuns == 4       \* contribution runs started

\* STEPS
UPLOAD_DATA == 1
BLOCKCHAIN_REGISTRATION == 2
REQUEST_TEE_PROOF == 3
PROCESS_PROOF == 4
CLAIM_REWARD == 5

\* the step function that runs at each position of handleContributeData
stepAtSwapped(pc) ==
  CASE pc = "upload"   -> UPLOAD_DATA
    [] pc = "register" -> REQUEST_TEE_PROOF
    [] pc = "proof"    -> BLOCKCHAIN_REGISTRATION
    [] pc = "refine"   -> PROCESS_PROOF
    [] pc = "reward"   -> CLAIM_REWARD

stepAt(pc) ==
  CASE pc = "upload"   -> UPLOAD_DATA
    [] pc = "register" -> BLOCKCHAIN_REGISTRATION
    [] pc = "proof"    -> REQUEST_TEE_PROOF
    [] pc = "refine"   -> PROCESS_PROOF
    [] pc = "reward"   -> CLAIM_REWARD

\* where a step function awaits its external call
awaiting(pc) ==
  CASE pc = "upload"   -> "uploading"
    [] pc = "register" -> "registering"
    [] pc = "proof"    -> "proving"
    [] pc = "refine"   -> "refining"
    [] pc = "reward"   -> "rewarding"

\* markStepComplete
markStepComplete(prev, step) == Append(prev, step)

\* handleContributeData returns
FlowReturns == flPc' = "idle" /\ UNCHANGED <<flIn, runs>>

\* The Contribute button (handleContribute): resetFlow, then
\* handleContributeData up to the signing of the message.
HandleContribute ==
  /\ flPc = "idle" /\ runs < MaxRuns
  /\ \E userInfo \in BOOLEAN, isConnected \in BOOLEAN :
       /\ flIn' = [userInfo |-> userInfo, isConnected |-> isConnected]
       /\ flPc' = IF userInfo THEN "sign" ELSE "idle"
       /\ error' = ~userInfo
  /\ runs' = runs + 1
  /\ currentStep' = 0 /\ completedSteps' = <<>>             \* resetFlow
  /\ isSuccess' = FALSE /\ rewardTxHash' = FALSE
  /\ contributionData' = FALSE
  /\ issued' = {} /\ returned' = {}
  /\ UNCHANGED <<toolVars, auxVars>>

\* executeSignMessageStep
SignMessage ==
  /\ flPc = "sign"
  /\ \E signed \in BOOLEAN :
       IF signed
       THEN /\ flPc' = "upload" /\ UNCHANGED <<error, flIn, runs>>
       ELSE /\ error' = TRUE /\ FlowReturns
  /\ UNCHANGED <<currentStep, completedSteps, isSuccess, rewardTxHash,
                 contributionData, issued, returned>>
  /\ UNCHANGED <<toolVars, auxVars>>

\* A step function up to its external call: setCurrentStep and the call.
\* Step 2 reads the DLP public key first, which can throw.
StepCall ==
  /\ flPc \in {"upload", "register", "proof", "refine", "reward"}
  /\ LET step == stepAt(flPc) IN
       /\ currentStep' = step
       /\ \E keyOk \in BOOLEAN :
            IF flPc = "register" /\ ~keyOk
            THEN /\ error' = TRUE /\ FlowReturns /\ UNCHANGED issued
            ELSE /\ issued' = issued \cup {step}
                 /\ flPc' = awaiting(flPc)
                 /\ UNCHANGED <<error, flIn, runs>>
  /\ UNCHANGED <<completedSteps, isSuccess, rewardTxHash, contributionData,
                 returned>>
  /\ UNCHANGED <<toolVars, auxVars>>

\* executeUploadDataStep after uploadData, and the wallet check that follows
UploadReturn ==
  /\ flPc = "uploading"
  /\ \E uploadResult \in BOOLEAN :
       IF ~uploadResult
       THEN /\ error' = TRUE /\ FlowReturns
            /\ UNCHANGED <<completedSteps, returned>>
       ELSE /\ returned' = returned \cup {UPLOAD_DATA}
            /\ completedSteps' = markStepComplete(completedSteps, UPLOAD_DATA)
            /\ IF ~flIn.isConnected
               THEN /\ error' = TRUE /\ FlowReturns
               ELSE /\ flPc' = "register" /\ UNCHANGED <<error, flIn, runs>>
  /\ UNCHANGED <<currentStep, isSuccess, rewardTxHash, contributionData,
                 issued>>
  /\ UNCHANGED <<toolVars, auxVars>>

\* executeBlockchainRegistrationStep after addFile: no receipt is an error;
\* with a receipt the step is complete, and the run goes on if the receipt
\* holds a file id.
RegisterReturn ==
  /\ flPc = "registering"
  /\ \E txReceipt \in BOOLEAN, fileId \in BOOLEAN :
       IF ~txReceipt
       THEN /\ error' = TRUE /\ FlowReturns
            /\ UNCHANGED <<completedSteps, returned, contributionData>>
       ELSE /\ returned' = returned \cup {BLOCKCHAIN_REGISTRATION}
            /\ completedSteps' =
                 markStepComplete(completedSteps, BLOCKCHAIN_REGISTRATION)
            /\ IF fileId
               THEN /\ flPc' = "proof" /\ UNCHANGED <<error, flIn, runs>>
                    /\ contributionData' = TRUE    \* updateContributionData
               ELSE /\ FlowReturns /\ UNCHANGED <<error, contributionData>>
  /\ UNCHANGED <<currentStep, isSuccess, rewardTxHash, issued>>
  /\ UNCHANGED <<toolVars, auxVars>>

\* executeTeeProofStep and executeProcessProofStep after their calls: a
\* failure throws to executeProofAndRewardSteps, which sets the error and
\* returns, and handleContributeData then sets isSuccess.
ProofReturn ==
  /\ flPc \in {"proving", "refining"}
  /\ LET step == IF flPc = "proving" THEN REQUEST_TEE_PROOF
                 ELSE PROCESS_PROOF
     IN \E ok \in BOOLEAN :
       IF ok
       THEN /\ returned' = returned \cup {step}
            /\ completedSteps' = markStepComplete(completedSteps, step)
            /\ flPc' = IF flPc = "proving" THEN "refine" ELSE "reward"
            /\ UNCHANGED <<error, isSuccess, flIn, runs>>
       ELSE /\ error' = TRUE /\ isSuccess' = TRUE /\ FlowReturns
            /\ UNCHANGED <<completedSteps, returned>>
  /\ UNCHANGED <<currentStep, rewardTxHash, contributionData, issued>>
  /\ UNCHANGED <<toolVars, auxVars>>

\* executeClaimRewardStep after requestReward, which returns null when the
\* claim failed: the step is marked complete either way.
RewardReturn ==
  /\ flPc = "rewarding"
  /\ \E rewardResult \in BOOLEAN :
       /\ rewardTxHash' = rewardResult
       /\ returned' = IF rewardResult THEN returned \cup {CLAIM_REWARD}
                      ELSE returned
  /\ contributionData' = TRUE                     \* updateContributionData
  /\ completedSteps' = markStepComplete(completedSteps, CLAIM_REWARD)
  /\ isSuccess' = TRUE
  /\ FlowReturns
  /\ UNCHANGED <<currentStep, error, issued>>
  /\ UNCHANGED <<toolVars, auxVars>>

NextFlow ==
  \/ HandleContribute \/ SignMessage \/ StepCall
  \/ UploadReturn \/ RegisterReturn \/ ProofReturn \/ RewardReturn

\* VanaDlpIntegration: the success view (ContributionSuccess) is rendered
ContributionSuccessShown == isSuccess /\ contributionData

SpecFlow == Init /\ [][NextFlow]_vars

(***************************************************************************)
(* pollEncryptionKey (deploy:refiner)                                      *)
(***************************************************************************)
MaxAttempts == 4   \* maxAttempts: 1..MaxAttempts
MaxKey == 2        \* distinct non-empty keys the contract can return

\* what a read of dlpPubKeys can give: a key, the empty string, or an
\* exception ("threw")
Keys == {ToString(k) : k \in 1..MaxKey}
ReadOutcomes == Keys \cup {"", "threw"}

\* if (encryptionKey && encryptionKey !== '')
keyRetrieved(encryptionKey) == encryptionKey # "" /\ encryptionKey # "threw"

\* if (i < maxAttempts - 1): wait before the next attempt
sleepBeforeRetryAlways(i, maxAttempts) == i < maxAttempts

sleepBeforeRetry(i, maxAttempts) == i < maxAttempts - 1

\* the call: i = 0 and the loop condition
PollStart ==
  /\ poll.pc \in {"idle", "done"}
  /\ \E maxAttempts \in 1..MaxAttempts :
       poll' = [pollIdle EXCEPT !.pc = "read", !.maxAttempts = maxAttempts]
  /\ UNCHANGED <<toolVars, flowVars, sv, sy, up>>

\* one attempt: the read, and what follows it up to the sleep or the return
PollRead ==
  /\ poll.pc = "read"
  /\ \E encryptionKey \in ReadOutcomes :
       LET seen == Append(poll.reads, encryptionKey) IN
       IF keyRetrieved(encryptionKey)
       THEN poll' = [poll EXCEPT !.reads = seen, !.pc = "done",
                                 !.result = encryptionKey]
       ELSE IF sleepBeforeRetry(poll.i, poll.maxAttempts)
       THEN poll' = [poll EXCEPT !.reads = seen, !.pc = "sleep"]
       ELSE IF poll.i + 1 < poll.maxAttempts
       THEN poll' = [poll EXCEPT !.reads = seen, !.i = @ + 1]
       ELSE poll' = [poll EXCEPT !.reads = seen, !.i = @ + 1,
                                 !.pc = "done", !.result = "null"]
  /\ UNCHANGED <<toolVars, flowVars, sv, sy, up>>

\* the 30 second wait is over: i++ and the loop condition
PollSleep ==
  /\ poll.pc = "sleep"
  /\ poll' = IF poll.i + 1 < poll.maxAttempts
             THEN [poll EXCEPT !.sleeps = @ + 1, !.i = @ + 1, !.pc = "read"]
             ELSE [poll EXCEPT !.sleeps = @ + 1, !.i = @ + 1, !.pc = "done",
                               !.result = "null"]
  /\ UNCHANGED <<toolVars, flowVars, sv, sy, up>>

NextPoll == PollStart \/ PollRead \/ PollSleep

SpecPoll == Init /\ [][NextPoll]_vars

(***************************************************************************)
(* DeploymentStateManager.saveState and the methods that call it           *)
(***************************************************************************)
\* the steps and the flag the methods are called with here
SaveSteps == {"contractsDeployed", "uiConfigured"}

\* saveState(newState): deployment.json and its backup afterwards.  The
\* file exists (loadState throws otherwise), so the copy is always made.
saveStateNoBackup(disk, stateToSave) == [disk EXCEPT !.file = stateToSave]

saveState(disk, stateToSave) ==
  [disk EXCEPT !.backup = [present |-> TRUE, content |-> disk.file],
               !.file = stateToSave]

\* a call of saveState: what the file held just before is remembered
Saved(stateToSave) ==
  [saveState(sv, stateToSave) EXCEPT !.saved = TRUE, !.before = sv.file]

\* new DeploymentStateManager(): loadState, which saves the deployment
\* object when it had to create the state object
SaveConstruct ==
  /\ LET disk == IF loadStateSaves(sv.file) THEN Saved(loadState(sv.file))
                 ELSE sv
     IN sv' = [disk EXCEPT !.made = TRUE, !.mem = loadState(sv.file)]
  /\ UNCHANGED <<toolVars, flowVars, poll, sy, up>>

\* recordError(step, error)
SaveRecordError ==
  /\ sv.made
  /\ \E step \in SaveSteps :
       LET mem == recordError(sv.mem, step)
       IN sv' = [Saved(mem) EXCEPT !.mem = mem]
  /\ UNCHANGED <<toolVars, flowVars, poll, sy, up>>

\* clearError(step): saves only when the error was recorded
SaveClearError ==
  /\ sv.made
  /\ \E step \in SaveSteps :
       LET mem == clearError(sv.mem, step)
       IN sv' = IF clearErrorSaves(sv.mem, step)
                THEN [Saved(mem) EXCEPT !.mem = mem]
                ELSE sv
  /\ UNCHANGED <<toolVars, flowVars, poll, sy, up>>

\* markCompleted('uiConfigured'): updateState
SaveUpdateState ==
  /\ sv.made
  /\ LET mem == updateState(sv.mem, {"uiConfigured"})
     IN sv' = [Saved(mem) EXCEPT !.mem = mem]
  /\ UNCHANGED <<toolVars, flowVars, poll, sy, up>>

\* updateDeployment({ pinataApiKey, pinataApiSecret })
SaveUpdateDeployment ==
  /\ sv.made
  /\ LET mem == updateCredentials(sv.mem, "pinata")
     IN sv' = [Saved(mem) EXCEPT !.mem = mem]
  /\ UNCHANGED <<toolVars, flowVars, poll, sy, up>>

\* A step script writes deployment.json with fs.writeFileSync, not through
\* the state manager (deploy:contracts storing the addresses): no backup.
SaveDirectWrite ==
  /\ sv' = [sv EXCEPT !.file = deployContracts(sv.file, TRUE, TRUE, TRUE,
                                               TRUE).file]
  /\ sv'.file # sv.file
  /\ UNCHANGED <<toolVars, flowVars, poll, sy, up>>

NextSave ==
  \/ SaveConstruct \/ SaveRecordError \/ SaveClearError
  \/ SaveUpdateState \/ SaveUpdateDeployment \/ SaveDirectWrite

SpecSave == Init /\ [][NextSave]_vars

(***************************************************************************)
(* syncStateFromData, getNextIncompleteStep and getNextSteps on any        *)
(* deployment state                                                        *)
(***************************************************************************)
\* the flags syncStateFromData can set, and uiConfigured
SyncFlags == {"contractsDeployed", "dataDAORegistered", "proofGitSetup",
              "refinerGitSetup", "proofConfigured", "refinerConfigured",
              "uiConfigured"}

\* The deployment objects a state manager can hold: every combination of
\* the data isCompleted looks at and of the flags (the state object exists
\* once loadState has run).
DeploymentStates ==
  {[generateEnvFiles EXCEPT
      !.hasState = TRUE, !.hasToken = d[1], !.hasProxy = d[2],
      !.dlpId = d[3], !.proofRepo = d[4], !.refinerRepo = d[5],
      !.proofUrl = d[6], !.refinerId = d[7], !.st = flags] :
     d \in BOOLEAN \X BOOLEAN \X (0..MaxDlpId) \X BOOLEAN \X BOOLEAN
           \X (0..MaxUrl) \X ({NoId} \cup (0..MaxRefinerId)),
     flags \in SUBSET SyncFlags}

\* getNextIncompleteStep: the first step that is not completed, or null
getNextIncompleteStep(mem) ==
  LET open == {k \in 1..Len(deploySteps) : ~isCompleted(mem, deploySteps[k])}
  IN IF open = {} THEN "null"
     ELSE deploySteps[CHOOSE k \in open : \A j \in open : k <= j]

\* getNextSteps(deployment) of status: the script it proposes, read from
\* the raw flags
getNextSteps(deployment) ==
  IF ~flag(deployment, "contractsDeployed") THEN <<"deploy:contracts">>
  ELSE IF ~flag(deployment, "dataDAORegistered") THEN <<"register:datadao">>
  ELSE IF ~flag(deployment, "proofConfigured") THEN <<"deploy:proof">>
  ELSE IF ~flag(deployment, "refinerConfigured") THEN <<"deploy:refiner">>
  ELSE IF ~flag(deployment, "uiConfigured") THEN <<"deploy:ui">>
  ELSE <<>>

\* a state manager holding some deployment object
SyncLoad ==
  /\ sy.pc = "idle"
  /\ \E deployment \in DeploymentStates :
       sy' = [syIdle EXCEPT !.pc = "loaded", !.before = deployment,
                            !.mem = deployment]
  /\ UNCHANGED <<toolVars, flowVars, poll, sv, up>>

\* syncStateFromData(): updateState(updates), which saves, when there are
\* updates
SyncCall ==
  /\ sy.pc = "loaded"
  /\ LET updates == syncStateFromData(sy.mem) IN
     sy' = [sy EXCEPT !.pc = "synced", !.updates = updates,
                      !.mem = IF updates # {} THEN updateState(@, updates)
                              ELSE @,
                      !.saves = IF updates # {} THEN @ + 1 ELSE @]
  /\ UNCHANGED <<toolVars, flowVars, poll, sv, up>>

\* an immediate second call
SyncAgain ==
  /\ sy.pc = "synced"
  /\ LET updates == syncStateFromData(sy.mem) IN
     sy' = [sy EXCEPT !.pc = "synced2", !.again = updates,
                      !.mem = IF updates # {} THEN updateState(@, updates)
                              ELSE @,
                      !.saves = IF updates # {} THEN @ + 1 ELSE @]
  /\ UNCHANGED <<toolVars, flowVars, poll, sv, up>>

\* status after the sync: what getNextSteps and getNextIncompleteStep give
SyncStatus ==
  /\ sy.pc \in {"synced", "synced2"}
  /\ sy' = [sy EXCEPT !.pc = "status",
                      !.nextSteps = getNextSteps(sy.mem),
                      !.incomplete = getNextIncompleteStep(sy.mem)]
  /\ UNCHANGED <<toolVars, flowVars, poll, sv, up>>

\* status ends; the next run starts from another deployment object
SyncDone ==
  /\ sy.pc = "status"
  /\ sy' = syIdle
  /\ UNCHANGED <<toolVars, flowVars, poll, sv, up>>

NextSync == SyncLoad \/ SyncCall \/ SyncAgain \/ SyncStatus \/ SyncDone

SpecSync == Init /\ [][NextSync]_vars

(***************************************************************************)
(* uploadUserData (web application)                                        *)
(***************************************************************************)
MaxUserId == 3      \* users: 1..MaxUserId
MaxSignature == 2   \* signatures: 1..MaxSignature

\* clientSideEncrypt(data, signature): the OpenPGP message of the data,
\* encrypted with the signature as password
clientSideEncryptPlain(data, signature) == data

clientSideEncrypt(data, signature) ==
  [type |-> "application/octet-stream", content |-> data.content,
   password |-> signature]

\* the steps of uploadUserData after the encryption, each a request (or
\* two) to Google Drive that can fail: findOrCreateFolder, the upload,
\* fetchFileDetails, updateFilePermissions; createSharableLink sends nothing
driveSteps == <<"folder", "upload", "details", "permissions">>

driveIndex(step) == CHOOSE k \in 1..Len(driveSteps) : driveSteps[k] = step

\* the call: the data package is built and serialised
UploadStart ==
  /\ up.pc = "idle"
  /\ \E userId \in 1..MaxUserId, signature \in 1..MaxSignature,
        driveInfo \in BOOLEAN :
       up' = [upIdle EXCEPT
                !.pc = "encrypt", !.userId = userId, !.signature = signature,
                !.fileBlob = [type |-> "application/json",
                              content |-> [userId |-> userId,
                                           storage |-> driveInfo],
                              password |-> 0]]
  /\ UNCHANGED <<toolVars, flowVars, poll, sv, sy>>

\* await clientSideEncrypt(fileBlob, signature): it returns the encrypted
\* Blob or throws
UploadEncrypt ==
  /\ up.pc = "encrypt"
  /\ \E ok \in BOOLEAN :
       up' = IF ok
             THEN [up EXCEPT !.pc = "folder",
                     !.encryptedBlob = clientSideEncrypt(up.fileBlob,
                                                         up.signature)]
             ELSE [up EXCEPT !.pc = "ended", !.result = "threw"]
  /\ UNCHANGED <<toolVars, flowVars, poll, sv, sy>>

\* one request to Google Drive; the upload carries encryptedBlob
UploadDrive ==
  /\ up.pc \in {"folder", "upload", "details", "permissions"}
  /\ \E ok \in BOOLEAN :
       LET k == driveIndex(up.pc)
           sent == [up EXCEPT
                      !.requests = Append(@, up.pc),
                      !.uploaded = IF up.pc = "upload" THEN up.encryptedBlob
                                   ELSE @]
       IN up' = IF ~ok
                THEN [sent EXCEPT !.pc = "ended", !.result = "threw"]
                ELSE IF k < Len(driveSteps)
                THEN [sent EXCEPT !.pc = driveSteps[k + 1]]
                ELSE [sent EXCEPT !.pc = "ended", !.result = "returned"]
  /\ UNCHANGED <<toolVars, flowVars, poll, sv, sy>>

\* the caller has the result
UploadEnd ==
  /\ up.pc = "ended"
  /\ up' = upIdle
  /\ UNCHANGED <<toolVars, flowVars, poll, sv, sy>>

NextUpload == UploadStart \/ UploadEncrypt \/ UploadDrive \/ UploadEnd

SpecUpload == Init /\ [][NextUpload]_vars

(***************************************************************************)
(* Properties of the deploy orchestrator                                   *)
(***************************************************************************)
\* position of a script in the fixed order of the steps
scriptOrder(script) == stepIndex(stepOf(script))

\* C1: in one run of deployAll the step scripts are launched in the order
\* deploy:contracts, register:datadao, deploy:proof, deploy:refiner,
\* deploy:ui, each at most once, and none is launched while its completion
\* flag is true in deployment.json at the moment the orchestrator checks it.
C1_LaunchOrder ==
  parKind = "deploy" =>
    /\ \A i \in 1..Len(launched) : ~launched[i].flagInFile
    /\ \A i, j \in 1..Len(launched) :
         i < j => scriptOrder(launched[i].script)
                    < scriptOrder(launched[j].script)

\* an orchestrator run that skipped a completed step and launched the last
\* three scripts
C1_Witness ==
  /\ parKind = "deploy" /\ parPc = at("wait", 5)
  /\ Len(launched) = 3
  /\ launched[1].script = "deploy:proof"

(***************************************************************************)
(* Properties of deployment.json                                           *)
(***************************************************************************)
\* what deployment.json holds in old is still held in new: the addresses,
\* the dlpId, the proof URL, the refiner id and every flag that is true
keeps(old, new) ==
  /\ old.hasToken => new.hasToken
  /\ old.hasProxy => new.hasProxy
  /\ old.dlpId # 0 => new.dlpId = old.dlpId
  /\ old.proofUrl # 0 => new.proofUrl = old.proofUrl
  /\ old.refinerId # NoId => new.refinerId = old.refinerId
  /\ old.st \subseteq new.st

\* C2: a write to deployment.json by the status process (no step script is
\* running: it has not started one yet or the one it started has exited)
\* keeps every field and flag the file holds, so nothing a step script
\* stored is discarded.
C2_StatusWriteKeepsChildWrites ==
  [][(parKind = "status" /\ chPc \in {"idle", "exited"} /\ file' # file)
       => keeps(file, file')]_vars

\* C3: dataDAORegistered = true in deployment.json implies a dlpId > 0 there.
C3_RegisteredHasDlpId ==
  flag(file, "dataDAORegistered") => file.dlpId > 0

\* status has run step scripts and the file holds the flag with the dlpId
C3_Witness ==
  /\ flag(file, "dataDAORegistered") /\ file.dlpId > 0
  /\ parKind = "status" /\ parPc.at = "resume" /\ parPc.step > 2

\* C4: contractsDeployed = true in deployment.json implies that the token
\* address and the proxy address are there; a deploy:contracts run that
\* cannot extract one of them exits with failure and leaves the file, and
\* so the flag, as it was.
C4_DeployedHasAddresses ==
  /\ flag(file, "contractsDeployed") => file.hasToken /\ file.hasProxy
  /\ (chScript = "deploy:contracts" /\ chObs.extracted = "missing")
       => /\ chPc = "exited" /\ chExit = 1
          /\ file = chPre

\* a deploy:contracts run failed to extract an address with the flag unset
C4_Witness ==
  /\ chScript = "deploy:contracts" /\ chObs.extracted = "missing"
  /\ ~flag(file, "contractsDeployed")

\* C5: when a step script has ended in failure, the errors map of
\* deployment.json holds an entry keyed by the step's name.
C5_FailureRecorded ==
  (chPc = "exited" /\ chExit # 0) => stepOf(chScript) \in file.errors

\* the steps before deploy:ui are complete in f, no error is recorded, and
\* the credentials are as setup wrote them
readyForUI(f) ==
  /\ {"contractsDeployed", "dataDAORegistered", "proofConfigured",
      "refinerConfigured"} \subseteq f.st
  /\ ~flag(f, "uiConfigured")
  /\ f.hasToken /\ f.hasProxy /\ f.dlpId > 0
  /\ f.proofUrl # 0 /\ f.refinerId > 0
  /\ f.errors = {}
  /\ f.pinata = generateEnvFiles.pinata /\ f.google = generateEnvFiles.google

\* C6: a deploy:ui run that starts after deploy:contracts, register:datadao,
\* deploy:proof (with a proof URL) and deploy:refiner (with a refiner id > 0)
\* have succeeded, the rest of deployment.json being as setup wrote it,
\* succeeds: it writes ui/.env and sets uiConfigured.
C6_UISucceedsAfterSteps ==
  (chScript = "deploy:ui" /\ chPc = "exited" /\ readyForUI(chPre))
    => /\ chExit = 0
       /\ chObs.wroteEnv /\ uiEnv.configured
       /\ flag(file, "uiConfigured")

(***************************************************************************)
(* Properties of register:datadao                                          *)
(***************************************************************************)
\* a register:datadao run is in progress or has just ended
registering == chScript = "register:datadao"

\* C8: register:datadao submits the registerDlp transaction at most once
\* per run, and only after the registry returned dlpId 0 for the proxy
\* address and the name check did not report the name taken; when the name
\* is reported taken the run fails without a transaction and leaves
\* deployment.json unchanged.
C8_TxOnlyWhenUnregistered ==
  registering =>
    /\ chObs.txCount <= 1
    /\ chObs.txCount > 0 =>
         /\ chObs.registryRead = "zero"
         /\ chObs.nameCheck \in {"free", "error"}
    /\ chObs.nameCheck = "taken" =>
         /\ chPc = "exited" /\ chExit = 1
         /\ chObs.txCount = 0
         /\ file = chPre

\* C9 as stated: when the registry reports a dlpId > 0, the run sends no
\* transaction and ends successfully with deployment.json holding that
\* dlpId and dataDAORegistered = true.
C9_AlreadyRegisteredStored ==
  (registering /\ chObs.registryRead = "positive") =>
    /\ chPc = "exited" /\ chExit = 0
    /\ chObs.txCount = 0
    /\ file.dlpId = registryDlpId /\ flag(file, "dataDAORegistered")

\* C9, amended: when the registry reports a dlpId > 0, the run sends no
\* transaction and ends successfully; deployment.json then holds that dlpId
\* and dataDAORegistered = true unless writing the file failed (the failure
\* is only logged), in which case the file is unchanged; a run that starts
\* with the dlpId and the flag in the file leaves the file unchanged.
C9_AlreadyRegistered ==
  (registering /\ chObs.registryRead = "positive") =>
    /\ chPc = "exited" /\ chExit = 0
    /\ chObs.txCount = 0
    /\ IF chObs.wroteFile
       THEN /\ file.dlpId = registryDlpId /\ flag(file, "dataDAORegistered")
            /\ keeps(chPre, file)
       ELSE file = chPre
    /\ (chPre.dlpId = registryDlpId /\ flag(chPre, "dataDAORegistered"))
         => file = chPre

\* a run found the DataDAO registered and stored the dlpId for the first
\* time
C9_Witness ==
  /\ registering /\ chObs.registryRead = "positive" /\ chObs.wroteFile
  /\ chPre.dlpId = 0 /\ file.dlpId > 0

\* C10: automated registration writes dlpId and dataDAORegistered = true to
\* deployment.json only when the receipt has status success and the
\* registry then returns a dlpId > 0; in every other outcome it throws (the
\* run ends in failure) and leaves deployment.json unchanged.
C10_AutomatedWritesOnSuccess ==
  (registering /\ chObs.outcome # "none") =>
    /\ chPc = "exited"
    /\ (chObs.wroteFile \/ file # chPre) =>
         /\ chObs.outcome = "registered" /\ chObs.receipt = "success"
         /\ registryDlpId > 0
         /\ file = markRegistered(chPre, registryDlpId)
    /\ chObs.outcome # "registered" => chExit = 1 /\ file = chPre

\* automated registration succeeded and the file holds the new dlpId
C10_Witness ==
  /\ registering /\ chObs.outcome = "registered" /\ chObs.wroteFile
  /\ chObs.txCount = 1 /\ chPre.dlpId = 0 /\ file.dlpId > 0

(***************************************************************************)
(* Properties of the contribution flow                                     *)
(***************************************************************************)
\* the elements of a sequence
Range(seq) == {seq[i] : i \in 1..Len(seq)}

\* one step of a contribution run (the reset that starts a run excepted)
FlowStep ==
  /\ currentStep' # currentStep =>
       currentStep' \in 1..5 /\ currentStep' > currentStep
  /\ completedSteps' # completedSteps =>
       \E k \in 1..5 :
         /\ completedSteps' = Append(completedSteps, k)
         /\ \A j \in 1..(k - 1) : j \in Range(completedSteps)
  /\ issued' # issued =>
       \E k \in 1..5 :
         /\ issued' = issued \cup {k} /\ k \notin issued
         /\ k > 1 => (k - 1) \in returned

\* C7: in one contribution run currentStep only takes the values 1 to 5 in
\* increasing order, a step k is added to completedSteps only after every
\* step j < k was added in the same run, and the external call of a step is
\* issued only after the call of the previous step returned successfully.
C7_FlowInOrder == [][flPc # "idle" => FlowStep]_vars

\* a run went through the five steps
C7_Witness ==
  /\ flPc = "idle" /\ currentStep = 5
  /\ completedSteps = <<1, 2, 3, 4, 5>>
  /\ issued = 1..5

(***************************************************************************)
(* Properties of pollEncryptionKey                                         *)
(***************************************************************************)
\* C11: pollEncryptionKey(dlpId, maxAttempts) terminates: it performs at most
\* maxAttempts reads and at most maxAttempts - 1 sleeps (every step of the
\* loop is a read or a sleep, so the run ends), returns the first non-empty
\* key it reads without further reads, and returns null exactly when each of
\* the maxAttempts attempts gave an empty key or threw.
C11_PollTerminates ==
  poll.pc # "idle" =>
    /\ Len(poll.reads) <= poll.maxAttempts
    /\ poll.sleeps <= poll.maxAttempts - 1
    /\ poll.sleeps <= Len(poll.reads)
    /\ \A k \in 1..(Len(poll.reads) - 1) : ~keyRetrieved(poll.reads[k])
    /\ poll.pc # "done" =>
         /\ poll.result = "none"
         /\ \A k \in 1..Len(poll.reads) : ~keyRetrieved(poll.reads[k])
         /\ Len(poll.reads) + poll.sleeps < 2 * poll.maxAttempts - 1
    /\ poll.pc = "done" =>
         /\ Len(poll.reads) >= 1
         /\ LET last == poll.reads[Len(poll.reads)] IN
            IF keyRetrieved(last)
            THEN poll.result = last
            ELSE /\ poll.result = "null"
                 /\ Len(poll.reads) = poll.maxAttempts

\* a run that read an empty key, caught an exception and then got a key
C11_Witness ==
  /\ poll.pc = "done" /\ poll.maxAttempts = 3
  /\ Len(poll.reads) = 3 /\ poll.reads[1] = "" /\ poll.reads[2] = "threw"
  /\ poll.result = poll.reads[3] /\ poll.result \in Keys
  /\ poll.sleeps = 2

(***************************************************************************)
(* Properties of deploy:ui                                                 *)
(***************************************************************************)
\* C12: deploy:ui sets uiConfigured = true only after it has written ui/.env
\* with REFINER_ID and NEXT_PUBLIC_PROOF_URL equal to deployment.json's
\* refinerId and proofUrl; when proofUrl, refinerId, the Pinata credentials
\* or the Google credentials are missing from deployment.json it fails
\* without writing ui/.env and without setting uiConfigured.
C12_UIConfiguredAfterEnv ==
  (chScript = "deploy:ui" /\ chPc = "exited") =>
    /\ (flag(file, "uiConfigured") /\ ~flag(chPre, "uiConfigured")) =>
         /\ chExit = 0 /\ chObs.wroteEnv /\ uiEnv.configured
         /\ uiEnv.REFINER_ID = file.refinerId
         /\ uiEnv.PROOF_URL = file.proofUrl
    /\ (\/ chPre.proofUrl = 0 \/ ~truthyId(chPre.refinerId)
        \/ ~chPre.pinata \/ ~chPre.google) =>
         /\ chExit = 1
         /\ ~chObs.wroteEnv
         /\ flag(file, "uiConfigured") <=> flag(chPre, "uiConfigured")

\* a deploy:ui run wrote ui/.env and set the flag
C12_Witness ==
  /\ chScript = "deploy:ui" /\ chPc = "exited" /\ chExit = 0
  /\ chObs.wroteEnv /\ uiEnv.REFINER_ID > 0 /\ uiEnv.PROOF_URL > 0
  /\ flag(file, "uiConfigured") /\ ~flag(chPre, "uiConfigured")

(***************************************************************************)
(* Properties of saveState                                                 *)
(***************************************************************************)
\* C13: every saveState call copies deployment.json to
\* deployment.json.backup before it writes, so once saveState has been
\* called the backup holds what deployment.json held immediately before the
\* most recent save.
C13_BackupIsPreviousFile ==
  sv.saved => sv.backup.present /\ sv.backup.content = sv.before

\* a save made after a step script wrote the file directly: the backup
\* holds the script's write, which no earlier save had written
C13_Witness ==
  /\ sv.saved /\ sv.backup.present
  /\ sv.backup.content.hasToken /\ "contractsDeployed" \in sv.file.errors
  /\ sv.backup.content # sv.file /\ ~sv.mem.hasToken

(***************************************************************************)
(* Properties of syncStateFromData                                         *)
(***************************************************************************)
\* the data that proves a step complete, whatever its flag says
evidence(f, step) ==
  CASE step = "contractsDeployed" -> f.hasToken /\ f.hasProxy
    [] step = "dataDAORegistered" -> f.dlpId # 0
    [] step = "proofGitSetup"     -> f.proofRepo
    [] step = "refinerGitSetup"   -> f.refinerRepo
    [] step = "proofConfigured"   -> f.proofUrl # 0
    [] step = "refinerConfigured" -> f.refinerId # NoId /\ f.refinerId # 0
    [] OTHER -> FALSE

\* C14: syncStateFromData only turns flags from false to true: it sets each
\* of the six flags exactly when the flag is false and the evidence is
\* present, changes no other flag and no data field, leaves isCompleted equal
\* to the stored flag for each of the six steps, and an immediate second
\* call returns null and writes nothing.
C14_SyncOnlySetsFlags ==
  sy.pc \in {"synced", "synced2"} =>
    /\ sy.updates = {s \in SyncFlags \ {"uiConfigured"} :
                       ~flag(sy.before, s) /\ evidence(sy.before, s)}
    /\ sy.mem = [sy.before EXCEPT !.st = @ \cup sy.updates]
    /\ \A s \in SyncFlags \ {"uiConfigured"} :
         isCompleted(sy.mem, s) <=> flag(sy.mem, s)
    /\ sy.pc = "synced2" =>
         /\ sy.again = {}
         /\ sy.saves = IF sy.updates # {} THEN 1 ELSE 0

\* a first call set flags from the data and a second call changed nothing
C14_Witness ==
  /\ sy.pc = "synced2" /\ sy.saves = 1
  /\ sy.updates = {"contractsDeployed", "proofConfigured"}
  /\ flag(sy.before, "dataDAORegistered") /\ sy.before.dlpId = 0
  /\ sy.mem # sy.before

\* C15: after syncStateFromData, getNextSteps (raw flags) proposes the
\* script of exactly the step getNextIncompleteStep (isCompleted) returns:
\* the first of the five steps that is not complete, and nothing when all
\* five are complete.
C15_NextStepsAgree ==
  sy.pc = "status" =>
    /\ sy.nextSteps = IF sy.incomplete = "null" THEN <<>>
                      ELSE <<scriptMap(sy.incomplete)>>
    /\ sy.incomplete # "null" =>
         /\ ~isCompleted(sy.mem, sy.incomplete)
         /\ \A k \in 1..(stepIndex(sy.incomplete) - 1) :
              isCompleted(sy.mem, deploySteps[k])
    /\ sy.incomplete = "null" =>
         \A k \in 1..Len(deploySteps) : isCompleted(sy.mem, deploySteps[k])

\* the sync set the flag of a step whose data was present, and both
\* functions point at the step after it
C15_Witness ==
  /\ sy.pc = "status" /\ sy.incomplete = "proofConfigured"
  /\ sy.nextSteps = <<"deploy:proof">>
  /\ "dataDAORegistered" \in sy.updates

(***************************************************************************)
(* Properties of uploadUserData                                            *)
(***************************************************************************)
\* C16: uploadUserData sends to Google Drive only the output of
\* clientSideEncrypt: the upload request is issued only after the
\* encryption of the data package has completed and carries the package
\* encrypted with the signature, never the unencrypted package; if the
\* encryption fails no request is made.
C16_UploadsOnlyEncrypted ==
  /\ up.requests # <<>> => up.encryptedBlob # noBlob
  /\ up.encryptedBlob = noBlob => up.uploaded = noBlob
  /\ up.uploaded # noBlob =>
       /\ up.uploaded = up.encryptedBlob
       /\ up.uploaded # up.fileBlob
       /\ up.uploaded.content = up.fileBlob.content
       /\ up.uploaded.password = up.signature /\ up.signature > 0
       /\ up.uploaded.type = "application/octet-stream"

\* a call that uploaded the encrypted package and returned
C16_Witness ==
  /\ up.pc = "ended" /\ up.result = "returned"
  /\ up.requests = driveSteps
  /\ up.uploaded = up.encryptedBlob /\ up.uploaded.password = up.signature

(***************************************************************************)
(* Properties of deploy:proof                                              *)
(***************************************************************************)
\* C17: after the updateProofInstruction transaction of a deploy:proof run
\* is confirmed with status success, the deployment.json left by the run
\* holds state.proofInstructionUpdated = true.
C17_ProofInstructionRecorded ==
  (chScript = "deploy:proof" /\ chPc = "exited" /\ chObs.proofTx = "success")
    => flag(file, "proofInstructionUpdated")

(***************************************************************************)
(* Further properties of the deploy orchestrator                           *)
(***************************************************************************)
\* C18: whenever the deploy orchestrator launches deploy:proof,
\* deployment.json holds dataDAORegistered = true together with a dlpId.
C18_ProofLaunchedWhenRegistered ==
  (parKind = "deploy" /\ chScript = "deploy:proof" /\ chPc = "start") =>
    flag(chPre, "dataDAORegistered") /\ chPre.dlpId > 0

\* C20: deployAll prints 'DataDAO deployment completed!' only when the five
\* flags contractsDeployed, dataDAORegistered, proofConfigured,
\* refinerConfigured and uiConfigured are true in deployment.json at that
\* moment.
C20_CompletedOnlyWhenAllDone ==
  (parKind = "deploy" /\ parPc.at = "completed") => Steps \subseteq file.st

(***************************************************************************)
(* Further properties of deployment.json                                   *)
(***************************************************************************)
\* C19: in deployment.json proofConfigured = true implies that proofUrl is
\* present, and refinerConfigured = true implies that refinerId is present.
C19_ConfiguredHasArtifact ==
  /\ flag(file, "proofConfigured") => file.proofUrl # 0
  /\ flag(file, "refinerConfigured") => file.refinerId # NoId

\* C21: when a step script has just ended in success and the step's
\* completion flag is set in deployment.json, the errors map of
\* deployment.json has no entry for that step.
C21_SuccessClearsError ==
  (chPc = "exited" /\ chExit = 0 /\ flag(file, stepOf(chScript)))
    => stepOf(chScript) \notin file.errors

\* C22: in the contribution flow, isSuccess implies that no error is set
\* and that completedSteps holds all of the steps 1..5; and the success view
\* is never shown when the call of the TEE proof, refinement or reward step
\* was issued and failed.
C22_SuccessMeansAllDone ==
  /\ isSuccess =>
        /\ error = FALSE
        /\ UPLOAD_DATA..CLAIM_REWARD \subseteq Range(completedSteps)
  /\ ContributionSuccessShown =>
        (issued \cap {REQUEST_TEE_PROOF, PROCESS_PROOF, CLAIM_REWARD})
          \subseteq returned

\* C23: step 5 is in completedSteps only if requestReward returned a
\* receipt; and when the run has ended with requestReward called and no
\* receipt returned, the flow's error is set.
C23_RewardCompleteNeedsReceipt ==
  /\ CLAIM_REWARD \in Range(completedSteps) => CLAIM_REWARD \in returned
  /\ (flPc = "idle" /\ CLAIM_REWARD \in issued \ returned) => error

====
